---- MODULE Spec2Model ----
(***************************************************************************)
(* GPS disciplined FE-5680A controller (GPSDO_FE_v3.c).                    *)
(*                                                                         *)
(* The model has three processes that share the volatile globals:          *)
(*   - the PPS capture interrupt ISR(TCC5_CCA_vect),                       *)
(*   - the GPS serial receive interrupt, which calls handleGPS() on a      *)
(*     complete line,                                                      *)
(*   - main()'s endless loop, cut into steps at every access to a          *)
(*     volatile global or to a pin (a read of a volatile global is one     *)
(*     step, whatever its width) and at every stage of the control         *)
(*     computation.                                                        *)
(*                                                                         *)
(* The doubles of the program (avr-gcc: 32 bit floats) are fixed point     *)
(* numbers here, in units of 1/Scale, every operation rounding to the      *)
(* nearest unit.  Integers keep the widths avr-gcc gives them (int 16 bit, *)
(* long 32 bit); the inputs are chosen so that every intermediate value    *)
(* that the program keeps in 32 bits fits TLC's integers, and the one      *)
(* unsigned wrap-around the inputs can cause (in seconds_delta) is         *)
(* computed as the program computes it.                                    *)
(*                                                                         *)
(* The loop needs minutes to hours of pulses to leave a mode, so the       *)
(* behaviours start either where main() enters its loop or in one of the   *)
(* states of LongRuns, and go on for MaxPulses pulses at most.             *)
(*                                                                         *)
(* Variables whose names start with g_ are history variables: they record  *)
(* which pulse wrote a value, what has been transmitted, or what the       *)
(* environment has done so far, and no action of the program reads them.   *)
(*                                                                         *)
(* There are six specifications:                                            *)
(*   Spec         the program with every input the model has,              *)
(*   SpecNominal  the program from its start on nominal pulses, one a      *)
(*                second, for NominalTicks pulses,                         *)
(*   SpecNominalFair  the same where the pulses and the sentences keep     *)
(*                coming and the loop keeps running,                       *)
(*   SpecSteady   the program from its start on pulses that are all alike, *)
(*                for SteadyTicks pulses,                                  *)
(*   SpecGps      the interrupts alone on a serial line with faults,       *)
(*   SpecDac      writeDacValue() alone on values of the whole range of a  *)
(*                long.                                                    *)
(***************************************************************************)
EXTENDS Integers, Sequences, FiniteSets, TLC

\* ------------------------------------------------------------ constants

F_CPU == 30000000
GAIN_RAW == 1466
BIT_REDUCE == 2
GAIN == GAIN_RAW \div (2 ^ BIT_REDUCE)
TC_FAST == 100
TC_MED == 1800
TC_SLOW == 7200
\* DAMPING is 1.75 = 7/4, QE_COMPENSATION is 1.5 = 3/2
DAMPING_NUM == 7
DAMPING_DEN == 4
QE_COMPENSATION_NUM == 3
QE_COMPENSATION_DEN == 2
DAC_SIGN == 1
PHASE_ADC_MIDPOINT == 1024
PPS_ERR_BUF_LEN == 5
MODE_START == 0
MODE_FAST == 1
MODE_MED == 2
MODE_SLOW == 3
\* last_dac_value = 0x7fffffffL before the loop starts
LONG_MAX == ((2 ^ 30) - 1) + (2 ^ 30)
\* last_osc_locked = last_gps_locked = 0xff before the loop starts
NONE_OF_THE_ABOVE == 255

\* The resolution of the real-valued quantities: 1/100.
Scale == 4 * 25

\* ------------------------------------------------------------ bounds

\* The pulses the model lets arrive (pps_count is an unbounded counter).
MaxPulses == 2

\* The passes g_deferred counts a capture to have waited for its
\* quantization error (more are not told apart).
MaxDefer == 2

\* The changes of the oscillator's and of the receiver's lock the model
\* lets happen.
MaxLockChanges == 2

\* The pulses of the nominal run: enough for the engine to go from Start to
\* Slow (60 + 200 + 800 ticks) and to stay there for two ticks.
NominalTicks == 1062

\* The pulses of a steady run: enough for the start mode's 600 ticks and
\* two more.
SteadyTicks == 602

\* The calls of writeDacValue() in a run of the encoder alone.
MaxWrites == 2

\* ------------------------------------------------------------ arithmetic

Abs(x) == IF x < 0 THEN -x ELSE x

\* C's integer division and its (long)/(int) conversion of a double:
\* toward zero.
TruncDiv(a, b) == IF a >= 0 THEN a \div b ELSE -((-a) \div b)

\* A floating point division, rounded to the nearest unit of the model.
RDiv(a, b) ==
  IF a >= 0 THEN (a + (b \div 2)) \div b ELSE -(((-a) + (b \div 2)) \div b)

RECURSIVE Gcd(_, _)
Gcd(a, b) == IF b = 0 THEN a ELSE Gcd(b, a % b)

\* x * (num/den) in floating point, rounded to the nearest unit.
MulRatio(x, num, den) == RDiv(x * (num \div Gcd(num, den)), den \div Gcd(num, den))

\* (long)d and (int)d of a double d given in units of 1/Scale.
ToLong(d) == TruncDiv(d, Scale)

RECURSIVE XorBits(_, _, _)
XorBits(a, b, n) ==
  IF n = 0 THEN 0
  ELSE (((a % 2) + (b % 2)) % 2) + (2 * XorBits(a \div 2, b \div 2, n - 1))

Xor8(a, b) == XorBits(a, b, 8)

\* ------------------------------------------------------------ atof

Digits == {"0", "1", "2", "3", "4", "5", "6", "7", "8", "9"}

DigitVal(c) ==
  CASE c = "0" -> 0 [] c = "1" -> 1 [] c = "2" -> 2 [] c = "3" -> 3
    [] c = "4" -> 4 [] c = "5" -> 5 [] c = "6" -> 6 [] c = "7" -> 7
    [] c = "8" -> 8 [] c = "9" -> 9

\* The integer part: digits from position i on; <<value, next position>>.
RECURSIVE AtofInt(_, _, _)
AtofInt(s, i, acc) ==
  IF i <= Len(s) /\ s[i] \in Digits
  THEN AtofInt(s, i + 1, (10 * acc) + DigitVal(s[i]))
  ELSE <<acc, i>>

\* The fraction: digits from position i on, the first worth `unit`.
RECURSIVE AtofFrac(_, _, _)
AtofFrac(s, i, unit) ==
  IF i <= Len(s) /\ s[i] \in Digits
  THEN (DigitVal(s[i]) * unit) + AtofFrac(s, i + 1, unit \div 10)
  ELSE 0

\* atof() of a string without blanks or exponent, in units of 1/Scale:
\* the longest prefix that is a number, 0 when there is none.
Atof(s) ==
  LET neg == Len(s) >= 1 /\ s[1] = "-"
      first == IF Len(s) >= 1 /\ s[1] \in {"-", "+"} THEN 2 ELSE 1
      ip == AtofInt(s, first, 0)
      frac == IF ip[2] <= Len(s) /\ s[ip[2]] = "."
              THEN AtofFrac(s, ip[2] + 1, Scale \div 10)
              ELSE 0
      mag == (ip[1] * Scale) + frac
  IN  IF neg THEN -mag ELSE mag

\* ------------------------------------------------------------ mode_to_tc

mode_to_tc(m) ==
  CASE m = MODE_START -> TC_FAST
    [] m = MODE_FAST -> TC_FAST
    [] m = MODE_MED -> TC_MED
    [] m = MODE_SLOW -> TC_SLOW
    [] OTHER -> 0

\* ------------------------------------------------------------ inputs

\* A pulse as the capture interrupt sees it: the ADC reading of the phase
\* discriminator and the timer counts since the pulse before.
\*   nominal: the midpoint, F_CPU counts
\*   late:    the edge of the phase window (512 ns), 4 counts long
\*   far:     62 ns early, 400 counts long
\*   wild:    more than 100 ppm long
\*   missed:  one pulse missed, 3 counts short
\*   early:   half a second early (seconds_delta wraps around)
PulseInputs ==
  { [adc |-> PHASE_ADC_MIDPOINT, span |-> F_CPU],
    [adc |-> 0, span |-> F_CPU + 4],
    [adc |-> 900, span |-> F_CPU + 400],
    [adc |-> PHASE_ADC_MIDPOINT, span |-> F_CPU + 5000],
    [adc |-> PHASE_ADC_MIDPOINT - 1, span |-> (2 * F_CPU) - 3],
    [adc |-> PHASE_ADC_MIDPOINT, span |-> (F_CPU \div 2) - 1] }

\* The quantization error field of $PSTI,00: absent, positive, and negative
\* and longer than pps_err_buf holds.
QeTexts == { <<>>, <<"5", ".", "8">>, <<"-", "1", "2", ".", "5">> }

\* The fix type field of $GPGSA: no fix, 2D, 3D.
FixTypes == {"1", "2", "3"}

\* ------------------------------------------------------------ sentences

\* The characters 0x20 to 0x66, in the order of their codes (the grave
\* accent, which no sentence holds, by its code).
Chars ==
  << " ", "!", "\"", "#", "$", "%", "&", "'", "(", ")", "*", "+", ",", "-",
     ".", "/", "0", "1", "2", "3", "4", "5", "6", "7", "8", "9", ":", ";",
     "<", "=", ">", "?", "@", "A", "B", "C", "D", "E", "F", "G", "H", "I",
     "J", "K", "L", "M", "N", "O", "P", "Q", "R", "S", "T", "U", "V", "W",
     "X", "Y", "Z", "[", "\\", "]", "^", "_", "0x60", "a", "b", "c", "d", "e",
     "f" >>

\* The code of a character (an unsigned char of the program).
Ascii(c) == 31 + (CHOOSE i \in 1..Len(Chars) : Chars[i] = c)

\* What the receiver sends between "$" and "*" (the program reads the third
\* field of $GPGSA and the fifth of $PSTI,00, and nothing of $GPRMC).
GPGSA(fix) ==
  << "$", "G", "P", "G", "S", "A", ",", "A", ",", fix, ",", "0", "2", ",",
     ",", "1", ".", "6", "1" >>

PSTI(qe) ==
  << "$", "P", "S", "T", "I", ",", "0", "0", ",", "2", ",", "0", "," >>
    \o qe \o << ",", "," >>

GPRMC ==
  << "$", "G", "P", "R", "M", "C", ",", "1", "7", "2", "3", "1", "3", ",",
     "A" >>

\* The receiver's checksum: the exclusive or of the characters after "$".
RECURSIVE BodyChecksum(_, _)
BodyChecksum(body, i) ==
  IF i > Len(body) THEN 0
  ELSE Xor8(Ascii(body[i]), BodyChecksum(body, i + 1))

HexDigits ==
  << "0", "1", "2", "3", "4", "5", "6", "7", "8", "9", "A", "B", "C", "D",
     "E", "F" >>

\* The line as it is in rx_buf when handleGPS() is called: the body, "*" and
\* two hexadecimal digits.
Sentence(body, sum) ==
  body \o << "*", HexDigits[(sum \div 16) + 1], HexDigits[(sum % 16) + 1] >>

\* The checksums a line arrives with: the right one and, on a faulty line,
\* one wrong in its low and one wrong in its high digit.
Checksums(body, faulty) ==
  LET sum == BodyChecksum(body, 2)
  IN  IF faulty THEN {sum, Xor8(sum, 1), Xor8(sum, 128)} ELSE {sum}

\* The complete lines: the sentence the receiver sends and the text that
\* arrives.
SentencesOf(fixes, qes, faulty) ==
  UNION { { [kind |-> "GPGSA", text |-> Sentence(GPGSA(f), sum)] :
              sum \in Checksums(GPGSA(f), faulty) } : f \in fixes }
    \cup UNION { { [kind |-> "PSTI", text |-> Sentence(PSTI(q), sum)] :
                     sum \in Checksums(PSTI(q), faulty) } : q \in qes }
    \cup { [kind |-> "GPRMC", text |-> Sentence(GPRMC, sum)] :
             sum \in Checksums(GPRMC, faulty) }

\* The lines that arrive over a serial line without faults.
Sentences == SentencesOf(FixTypes, QeTexts, FALSE)

\* The lines that arrive over a serial line with faults.
FaultySentences == SentencesOf(FixTypes, QeTexts, TRUE)

\* A quantization error of zero.
ZeroQe == << "0", ".", "0" >>

\* The lines of a receiver with a fix that reports no quantization error
\* ("none"), and of one that reports a quantization error of zero ("zero").
EmptySentences == SentencesOf({"2", "3"}, {<<>>}, FALSE)

ZeroSentences == SentencesOf({"2", "3"}, {ZeroQe}, FALSE)

NominalSentences == EmptySentences \cup ZeroSentences

NominalLines(receiver, count, line_edge) ==
  { s \in (IF receiver = "zero" THEN ZeroSentences ELSE EmptySentences) :
      s.kind = "PSTI" => line_edge < count }

\* The lines the receive interrupt can hand to handleGPS() after `count`
\* pulses: the receiver sends one $PSTI,00 for every pulse, in the order of
\* the pulses; the sentence can come after the next pulse.
Lines(count, line_edge) ==
  { s \in Sentences : s.kind = "PSTI" => line_edge < count }

\* ------------------------------------------------------------ state

VARIABLES
  \* volatile globals the interrupts write
  pps_count, irq_adc_value, irq_time_span, pps_err_buf, gps_locked,
  \* the OSC_RDY pin, as "the oscillator reports its physics lock"
  osc_rdy,
  \* main()'s globals
  mode, trim_value, iTerm, average_phase_error, average_pps_error,
  exit_timer, enter_timer, last_dac_value, last_osc_locked, last_gps_locked,
  last_pps_count, clk_ext, button_down, button_blink_time,
  \* main()'s position and locals
  pc, osc_locked, unlocked, temp, pps_err, intracycle_delta, seconds_delta,
  current_phase_error, time_constant,
  \* history: the pulse the latched / copied quantization error was reported
  \* for, the pulses whose span and ADC reading the pass has read, the pulses
  \* fed to the filters once and more than once, the last two frames sent,
  \* the frames sent in this pass, whether a call of writeDacValue() has
  \* returned without sending, the passes the capture has waited, the
  \* changes of lock so far, what this pass has last done to the engine
  \* with the state it found, and the last pulse the receiver has sent its
  \* $PSTI,00 for
  g_qe_edge, g_temp_edge, g_span_edge, g_adc_edge, g_fed, g_refed, g_frames,
  g_pass_tx, g_suppressed, g_deferred, g_lock_changes, g_prev, g_line_edge,
  \* history: the ticks in a row, in the mode the engine is in, on which
  \* the condition of a promotion has held (|average_pps_error| <= 0.25 in
  \* mode Start, |average_phase_error| <= 5 in Fast and Med); whether
  \* handleGPS() has returned from a line for its checksum; and what the
  \* receiver reports as quantization error ("any": any of QeTexts)
  g_streak, g_rejected, g_receiver

isrVars ==
  <<pps_count, irq_adc_value, irq_time_span, pps_err_buf, gps_locked,
    g_qe_edge>>

\* ControlState of the disciplining engine
ctlVars ==
  <<mode, trim_value, iTerm, average_phase_error, average_pps_error,
    exit_timer, enter_timer>>

dacVars == <<last_dac_value, g_frames, g_pass_tx, g_suppressed>>

miscVars ==
  <<last_osc_locked, last_gps_locked, last_pps_count, clk_ext, button_down,
    button_blink_time>>

lockLocals == <<osc_locked, unlocked>>

obsLocals ==
  <<temp, pps_err, intracycle_delta, seconds_delta, current_phase_error,
    time_constant, g_temp_edge, g_span_edge, g_adc_edge>>

localVars == <<lockLocals, obsLocals>>

fedVars == <<g_fed, g_refed, g_deferred>>

histVars == <<fedVars, g_streak>>

envVars == <<osc_rdy, g_lock_changes, g_line_edge, g_receiver, g_rejected>>

vars ==
  <<isrVars, envVars, ctlVars, dacVars, miscVars, pc, localVars, histVars,
    g_prev>>

\* No pulse: the latch is empty, or the pass has not read the value yet.
NoEdge == -1

\* The locals at the top of the loop's body.
LocalsInit ==
  /\ pc = "top"
  /\ osc_locked = 0
  /\ unlocked = FALSE
  /\ temp = <<>>
  /\ pps_err = 0
  /\ intracycle_delta = 0
  /\ seconds_delta = 0
  /\ current_phase_error = 0
  /\ time_constant = 0
  /\ g_temp_edge = NoEdge
  /\ g_span_edge = NoEdge
  /\ g_adc_edge = NoEdge

\* Nothing done to the engine in this pass.
NoEvent == [event |-> "none", ctl |-> <<>>, dac |-> 0, tx |-> 0]

\* The engine's event e, with the state before it.
Event(e) ==
  [event |-> e, ctl |-> ctlVars, dac |-> last_dac_value, tx |-> g_pass_tx]

HistoryInit ==
  /\ g_fed = {}
  /\ g_refed = {}
  /\ g_pass_tx = 0
  /\ g_suppressed = FALSE
  /\ g_deferred = 0
  /\ g_lock_changes = 0
  /\ g_prev = NoEvent
  /\ g_streak = exit_timer
  /\ g_rejected = FALSE

\* The state main() has built when it enters its loop (lines 624-653), the
\* oscillator still warming up and the receiver without a fix.
Booted(fix, rdy, receiver) ==
  /\ pps_count = 0
  /\ g_line_edge = 0
  /\ irq_adc_value = 0
  /\ irq_time_span = 0
  /\ pps_err_buf = <<>>
  /\ g_qe_edge = NoEdge
  /\ gps_locked = fix
  /\ osc_rdy = rdy
  /\ g_receiver = receiver
  /\ mode = MODE_START
  /\ trim_value = 0
  /\ iTerm = 0
  /\ average_phase_error = 0
  /\ average_pps_error = 0
  /\ exit_timer = 0
  /\ enter_timer = 0
  /\ last_dac_value = LONG_MAX
  /\ g_frames = <<>>
  /\ last_osc_locked = NONE_OF_THE_ABOVE
  /\ last_gps_locked = NONE_OF_THE_ABOVE
  /\ last_pps_count = 0
  /\ clk_ext = FALSE
  /\ button_down = 0
  /\ button_blink_time = 0
  /\ LocalsInit
  /\ HistoryInit

InitBoot == Booted(0, FALSE, "any")

\* ------------------------------------------------------------ interrupts

\* The steps of main() between which an interrupt is let in.  The other
\* steps read and write nothing an interrupt writes, so an interrupt that
\* comes during one of them has the effect of one that comes at its end.
IrqPoints ==
  {"top", "gps_cmp", "gps_save", "gps_test", "unlk", "chk_pps", "chk_qe",
   "set_last", "free_run", "copy_qe", "read_span", "read_adc"}

\* The capture interrupt of a pulse: the ADC reading and the cycle span are
\* written, the quantization error of the pulse before is dropped, and the
\* pulse is counted.  main() cannot run inside it.
TCC5_CCA_vect(adc_value, time_span) ==
  /\ pc \in IrqPoints
  /\ irq_adc_value' = adc_value
  /\ irq_time_span' = time_span
  /\ pps_err_buf' = <<>>
  /\ g_qe_edge' = NoEdge
  /\ pps_count' = pps_count + 1
  /\ g_deferred' = 0
  /\ UNCHANGED <<gps_locked, envVars, ctlVars, dacVars, miscVars, pc,
                 localVars, g_fed, g_refed, g_streak, g_prev>>

\* The capture interrupt, for the pulses the model lets arrive.
ISR_TCC5_CCA(adc_value, time_span) ==
  /\ pps_count < MaxPulses
  /\ TCC5_CCA_vect(adc_value, time_span)

PpsPulse == \E p \in PulseInputs : ISR_TCC5_CCA(p.adc, p.span)

\* hexChar(): the value of a hexadecimal digit of either case, 0 for any
\* other character.
hexes ==
  << "0", "1", "2", "3", "4", "5", "6", "7", "8", "9", "a", "b", "c", "d",
     "e", "f" >>

hexChar(c) ==
  LET lower == IF Ascii(c) >= Ascii("A") /\ Ascii(c) <= Ascii("F")
               THEN Chars[(Ascii(c) + (Ascii("a") - Ascii("A"))) - 31]
               ELSE c
  IN  IF \E k \in 1..Len(hexes) : hexes[k] = lower
      THEN (CHOOSE k \in 1..Len(hexes) : hexes[k] = lower) - 1
      ELSE 0

\* rx_buf[i] of the program, i counting from 0; the terminating 0 is "".
CharAt(buf, i) == IF i < Len(buf) THEN buf[i + 1] ELSE ""

\* lines 407-410: the exclusive or of rx_buf[1..] up to "*" or the end;
\* <<checksum, i>>
RECURSIVE ChecksumScan(_, _, _)
ChecksumScan(buf, i, checksum) ==
  IF i < Len(buf) /\ CharAt(buf, i) # "*"
  THEN ChecksumScan(buf, i + 1, Xor8(checksum, Ascii(CharAt(buf, i))))
  ELSE <<checksum, i>>

\* No position: NULL.
NoPtr == 0 - 1

\* strchr(ptr, c): the first position from ptr on that holds c, or NULL.
strchr(buf, ptr, c) ==
  IF \E k \in ptr..(Len(buf) - 1) : CharAt(buf, k) = c
  THEN CHOOSE k \in ptr..(Len(buf) - 1) :
         /\ CharAt(buf, k) = c
         /\ \A j \in ptr..(k - 1) : CharAt(buf, j) # c
  ELSE NoPtr

\* skip_commas(ptr, num): the position after the num-th comma, or NULL.
RECURSIVE skip_commas(_, _, _)
skip_commas(buf, ptr, num) ==
  IF num = 0 THEN ptr
  ELSE LET comma == strchr(buf, ptr, ",")
       IN  IF comma = NoPtr THEN NoPtr
           ELSE skip_commas(buf, comma + 1, num - 1)

\* !strncmp_P(rx_buf, prefix, n)
StartsWith(buf, prefix) ==
  Len(buf) >= Len(prefix) /\ SubSeq(buf, 1, Len(prefix)) = prefix

\* Every checksum taken for the right one.
SentChecksumAny(buf, i, checksum) == TRUE

\* lines 415-416: sent_checksum == checksum, the two characters after the
\* "*" at i read as hexadecimal digits
SentChecksumOk(buf, i, checksum) ==
  (((hexChar(CharAt(buf, i + 1)) * 16) + hexChar(CharAt(buf, i + 2))) % 256)
    = checksum

\* handleGPS() leaves both globals as they are.
Ignored == [bad |-> FALSE, sets_fix |-> FALSE, fix |-> 0, sets_qe |-> FALSE,
            qe |-> <<>>]

\* What handleGPS() does with the line in rx_buf: whether it returns for
\* the checksum, the fix status it writes, and the characters it latches.
\* (Every $PSTI,00 of the model has a comma after its fifth field.)
Interpret(rx_buf) ==
  LET str_len == Len(rx_buf)
      scan == ChecksumScan(rx_buf, 1, 0)
      checksum == scan[1]
      i == scan[2]
  IN  IF str_len < 9 THEN Ignored
      ELSE IF i > str_len - 3 THEN Ignored
      ELSE IF ~SentChecksumOk(rx_buf, i, checksum)
      THEN [Ignored EXCEPT !.bad = TRUE]
      ELSE IF StartsWith(rx_buf, <<"$", "G", "P", "R", "M", "C">>) THEN Ignored
      ELSE IF StartsWith(rx_buf, <<"$", "G", "P", "G", "S", "A">>)
      THEN LET ptr == skip_commas(rx_buf, 0, 2)
           IN  IF ptr = NoPtr THEN Ignored
               ELSE [Ignored EXCEPT
                       !.sets_fix = TRUE,
                       !.fix = IF CharAt(rx_buf, ptr) = "3"
                                  \/ CharAt(rx_buf, ptr) = "2"
                               THEN 1 ELSE 0]
      ELSE IF StartsWith(rx_buf, <<"$", "P", "S", "T", "I", ",", "0", "0">>)
      THEN LET ptr == skip_commas(rx_buf, 0, 4)
           IN  IF ptr = NoPtr THEN Ignored
               ELSE LET found == strchr(rx_buf, ptr, ",") - ptr
                        len == IF found > PPS_ERR_BUF_LEN - 1
                               THEN PPS_ERR_BUF_LEN - 1 ELSE found
                    IN  [Ignored EXCEPT
                           !.sets_qe = TRUE,
                           !.qe = SubSeq(rx_buf, ptr + 1, ptr + len)]
      ELSE Ignored

\* Interpret, of every line of the model.
Interpreted ==
  [rx_buf \in {s.text : s \in FaultySentences \cup NominalSentences} |->
     Interpret(rx_buf)]

\* handleGPS() on the line in rx_buf; `edge` is the pulse the receiver
\* reports a quantization error for.
handleGPS(rx_buf, edge) ==
  LET done == Interpreted[rx_buf]
  IN  /\ gps_locked' = (IF done.sets_fix THEN done.fix ELSE gps_locked)
      /\ IF done.sets_qe
         THEN /\ pps_err_buf' = done.qe
              /\ g_qe_edge' = (IF done.qe = <<>> THEN NoEdge ELSE edge)
         ELSE UNCHANGED <<pps_err_buf, g_qe_edge>>
      /\ g_rejected' = (g_rejected \/ done.bad)

\* The receive interrupt on the character that ends the line `line`.
Receive(line) ==
  /\ pc \in IrqPoints
  /\ handleGPS(line.text, g_line_edge + 1)
  /\ g_line_edge' = (IF line.kind = "PSTI" THEN g_line_edge + 1 ELSE g_line_edge)
  /\ IF gps_locked' # gps_locked
     THEN /\ g_lock_changes < MaxLockChanges
          /\ g_lock_changes' = g_lock_changes + 1
     ELSE UNCHANGED g_lock_changes
  /\ UNCHANGED <<pps_count, irq_adc_value, irq_time_span, osc_rdy, g_receiver,
                 ctlVars, dacVars, miscVars, pc, localVars, histVars, g_prev>>

ISR_USARTC0_RXC == \E line \in Lines(pps_count, g_line_edge) : Receive(line)

\* The oscillator gains or loses its physics lock.
OscRdyPin ==
  /\ pc \in IrqPoints
  /\ g_lock_changes < MaxLockChanges
  /\ g_lock_changes' = g_lock_changes + 1
  /\ osc_rdy' = ~osc_rdy
  /\ UNCHANGED <<isrVars, g_line_edge, g_receiver, g_rejected, ctlVars,
                 dacVars, miscVars, pc, localVars, histVars, g_prev>>

\* ------------------------------------------------------------ writeDacValue

\* Byte i of the value as it is, without the shift.
PayloadByteUnshifted(value, i) == (value \div (2 ^ (8 * i))) % 256

\* Byte i of the payload: value << BIT_REDUCE, kept to 32 bits (avr-gcc
\* shifts a negative long as the two's complement number it is).
PayloadByte(value, i) ==
  IF i = 0
  THEN (value % (2 ^ (8 - BIT_REDUCE))) * (2 ^ BIT_REDUCE)
  ELSE (value \div (2 ^ ((8 * i) - BIT_REDUCE))) % 256

\* The nine bytes writeDacValue() hands to tx_osc_byte().
Frame(value, non_volatile) ==
  LET b3 == PayloadByte(value, 3)
      b2 == PayloadByte(value, 2)
      b1 == PayloadByte(value, 1)
      b0 == PayloadByte(value, 0)
  IN  << (IF non_volatile THEN 44 ELSE 46), 9, 0,
         (IF non_volatile THEN 37 ELSE 39),
         b3, b2, b1, b0, Xor8(Xor8(Xor8(b3, b2), b1), b0) >>

\* The last two frames are kept.
Sent(frames, f) ==
  IF Len(frames) < 2 THEN Append(frames, f) ELSE <<frames[2], f>>

\* writeDacValue() without its test for a repeated value.
writeDacValueAlways(value, non_volatile) ==
  /\ last_dac_value' = value
  /\ g_frames' = Sent(g_frames, Frame(value, non_volatile))
  /\ g_pass_tx' = g_pass_tx + 1
  /\ UNCHANGED g_suppressed

writeDacValue(value, non_volatile) ==
  IF value = last_dac_value
  THEN /\ g_suppressed' = TRUE
       /\ UNCHANGED <<last_dac_value, g_frames, g_pass_tx>>
  ELSE /\ last_dac_value' = value
       /\ g_frames' = Sent(g_frames, Frame(value, non_volatile))
       /\ g_pass_tx' = g_pass_tx + 1
       /\ UNCHANGED g_suppressed

\* ------------------------------------------------------------ reset, downgrade

\* reset_pll() adding the fold to the trim value.
reset_pll_added ==
  /\ trim_value' = (IF mode # MODE_START
                    THEN trim_value + RDiv(iTerm, mode_to_tc(mode))
                    ELSE trim_value)
  /\ iTerm' = 0
  /\ average_phase_error' = 0
  /\ average_pps_error' = 0
  /\ mode' = MODE_START
  /\ exit_timer' = 0
  /\ g_prev' = Event("reset")
  /\ g_streak' = 0
  /\ UNCHANGED enter_timer

\* reset_pll() leaving the two averages as they are.
reset_pll_keeping_averages ==
  /\ trim_value' = (IF mode # MODE_START
                    THEN trim_value - RDiv(iTerm, mode_to_tc(mode))
                    ELSE trim_value)
  /\ iTerm' = 0
  /\ mode' = MODE_START
  /\ exit_timer' = 0
  /\ g_prev' = Event("reset")
  /\ g_streak' = 0
  /\ UNCHANGED <<enter_timer, average_phase_error, average_pps_error>>

reset_pll ==
  /\ trim_value' = (IF mode # MODE_START
                    THEN trim_value - RDiv(iTerm, mode_to_tc(mode))
                    ELSE trim_value)
  /\ iTerm' = 0
  /\ average_phase_error' = 0
  /\ average_pps_error' = 0
  /\ mode' = MODE_START
  /\ exit_timer' = 0
  /\ g_prev' = Event("reset")
  /\ g_streak' = 0
  /\ UNCHANGED enter_timer

\* The integral term kept as it is.
RescaledNot(i_term, old_mode, new_mode) == i_term

\* iTerm *= tc(new mode) / tc(old mode)
Rescaled(i_term, old_mode, new_mode) ==
  MulRatio(i_term, mode_to_tc(new_mode), mode_to_tc(old_mode))

\* downgrade_mode() going all the way down.
downgrade_to_start ==
  /\ enter_timer' = 100 * mode
  /\ mode' = MODE_START
  /\ iTerm' = Rescaled(iTerm, mode, MODE_START)
  /\ g_prev' = Event("down")
  /\ g_streak' = 0
  /\ UNCHANGED <<trim_value, average_phase_error, average_pps_error, exit_timer>>

\* downgrade_mode() taking enter_timer from the mode it goes to.
downgrade_mode_new_timer ==
  /\ enter_timer' = 100 * (mode - 1)
  /\ mode' = mode - 1
  /\ iTerm' = Rescaled(iTerm, mode, mode - 1)
  /\ g_prev' = Event("down")
  /\ g_streak' = 0
  /\ UNCHANGED <<trim_value, average_phase_error, average_pps_error, exit_timer>>

downgrade_mode ==
  /\ enter_timer' = 100 * mode
  /\ mode' = mode - 1
  /\ iTerm' = Rescaled(iTerm, mode, mode - 1)
  /\ g_prev' = Event("down")
  /\ g_streak' = 0
  /\ UNCHANGED <<trim_value, average_phase_error, average_pps_error, exit_timer>>

\* ------------------------------------------------------------ the observation

\* 2^32 = U32_Q * F_CPU + U32_R
U32_Q == (4 * ((2 ^ 30) \div F_CPU)) + ((4 * ((2 ^ 30) % F_CPU)) \div F_CPU)
U32_R == (4 * ((2 ^ 30) % F_CPU)) % F_CPU

\* long pps_cycle_delta = irq_time_span - F_CPU
CycleDelta(time_span) == time_span - F_CPU

\* unsigned long seconds_delta = (pps_cycle_delta + F_CPU/2) / F_CPU:
\* the sum is unsigned, a negative one wraps around to 2^32 + sum.
SecondsDelta(delta) ==
  LET sum == delta + (F_CPU \div 2)
  IN  IF sum >= 0 THEN sum \div F_CPU ELSE U32_Q + ((U32_R + sum) \div F_CPU)

\* (long)(seconds_delta * F_CPU), for seconds_delta * F_CPU < 2^32
SecondsCycles(sd) ==
  IF sd <= LONG_MAX \div F_CPU THEN sd * F_CPU ELSE ((sd - U32_Q) * F_CPU) - U32_R

IntracycleDelta(delta, sd) == delta - SecondsCycles(sd)

\* labs(intracycle_delta) / (seconds_delta + 1) > (F_CPU / 10000)
Erroneous(intra, sd) == (Abs(intra) \div (sd + 1)) > (F_CPU \div 10000)

\* (int)((QE_COMPENSATION * pps_err) + 0.5), pps_err in units of 1/Scale
QeCorrection(err) ==
  TruncDiv((2 * QE_COMPENSATION_NUM * err) + (QE_COMPENSATION_DEN * Scale),
           2 * QE_COMPENSATION_DEN * Scale)

\* The reading halved without the midpoint.
PhaseOfAdcUnbiased(adc_value) == adc_value \div 2

\* (PHASE_ADC_MIDPOINT - ((int)irq_adc_value)) >> 1
PhaseOfAdc(adc_value) == (PHASE_ADC_MIDPOINT - adc_value) \div 2

\* avg -= avg / filter_time; avg += sample / (div * filter_time),
\* sample an integer
Filtered(avg, sample, div, filter_time) ==
  (avg - RDiv(avg, filter_time)) + RDiv(sample * Scale, div * filter_time)

\* ------------------------------------------------------------ long runs

\* (long)(DAC_SIGN * (trim_value - adj_val) + 0.5),
\* adj_val = (pTerm + iTerm) / time_constant
PiDacValue(trim, i_term, p_term, tc) ==
  ToLong((DAC_SIGN * (trim - RDiv(p_term + i_term, tc))) + (Scale \div 2))

\* States of the engine that take the program hours to reach, at the top of
\* the loop's body with the oscillator and the receiver locked, the CPU
\* clocked by the oscillator and the last pulse processed; real values in
\* units of 1/Scale.  `left` is the number of pulses still to come.
\*   warm:    the start mode right after the oscillator has locked
\*   leaving: the start mode after 59 quiet ticks
\*   fast:    mode Fast after 199 ticks within 5 ns
\*   med:     mode Med after 799 ticks within 5 ns
\*   medEdge: mode Med, the phase error close to its limit of 100 ns
\*   medWait: mode Med, 150 ticks after a downgrade from Slow
\*   slowTop: mode Slow, the integral term close to its limit
\*   slowEdge: mode Slow, the phase error close to its limit of 150 ns
\*   slowLow: mode Slow, the integral term close to its negative limit
LongRuns ==
  { [mode |-> MODE_START, trim |-> 0, iterm |-> 0, phase |-> 0, pps |-> 0,
     exit |-> 0, enter |-> 0, left |-> MaxPulses],
    [mode |-> MODE_START, trim |-> -15000, iterm |-> 0, phase |-> 1500,
     pps |-> 10, exit |-> 59, enter |-> 0, left |-> 1],
    [mode |-> MODE_FAST, trim |-> -15000, iterm |-> 250000, phase |-> 120,
     pps |-> 2, exit |-> 199, enter |-> 0, left |-> 1],
    [mode |-> MODE_MED, trim |-> -15000, iterm |-> 4500000, phase |-> -200,
     pps |-> -1, exit |-> 799, enter |-> 0, left |-> 1],
    [mode |-> MODE_MED, trim |-> 20000, iterm |-> -3000000, phase |-> 9950,
     pps |-> 3, exit |-> 0, enter |-> 0, left |-> 1],
    [mode |-> MODE_MED, trim |-> 20000, iterm |-> 25000000, phase |-> 12000,
     pps |-> 0, exit |-> 0, enter |-> 150, left |-> 1],
    [mode |-> MODE_SLOW, trim |-> -15000, iterm |-> (1000 * TC_SLOW * Scale) - 5,
     phase |-> 300, pps |-> 1, exit |-> 0, enter |-> 0, left |-> 1],
    [mode |-> MODE_SLOW, trim |-> 0, iterm |-> 100000000, phase |-> 14990,
     pps |-> 0, exit |-> 0, enter |-> 0, left |-> 1],
    [mode |-> MODE_SLOW, trim |-> 20000, iterm |-> 5 - (1000 * TC_SLOW * Scale),
     phase |-> -300, pps |-> -1, exit |-> 0, enter |-> 0, left |-> 1] }

InitLongRun(r) ==
  /\ pps_count = MaxPulses - r.left
  /\ last_pps_count = MaxPulses - r.left
  /\ g_line_edge = MaxPulses - r.left
  /\ irq_adc_value = PHASE_ADC_MIDPOINT
  /\ irq_time_span = F_CPU
  /\ pps_err_buf = <<>>
  /\ g_qe_edge = NoEdge
  /\ gps_locked = 1
  /\ osc_rdy = TRUE
  /\ g_receiver = "any"
  /\ mode = r.mode
  /\ trim_value = r.trim
  /\ iTerm = r.iterm
  /\ average_phase_error = r.phase
  /\ average_pps_error = r.pps
  /\ exit_timer = r.exit
  /\ enter_timer = r.enter
  /\ last_dac_value =
       (IF r.mode = MODE_START THEN ToLong(DAC_SIGN * r.trim)
        ELSE PiDacValue(r.trim, r.iterm, r.phase * GAIN, mode_to_tc(r.mode)))
  /\ g_frames = <<Frame(last_dac_value, FALSE)>>
  /\ last_osc_locked = 1
  /\ last_gps_locked = 1
  /\ clk_ext = TRUE
  /\ button_down = 0
  /\ button_blink_time = 0
  /\ LocalsInit
  /\ HistoryInit

Init == InitBoot \/ \E r \in LongRuns : InitLongRun(r)

\* ------------------------------------------------------------ main()'s loop

LocalsReset ==
  /\ osc_locked' = 0
  /\ unlocked' = FALSE
  /\ temp' = <<>>
  /\ pps_err' = 0
  /\ intracycle_delta' = 0
  /\ seconds_delta' = 0
  /\ current_phase_error' = 0
  /\ time_constant' = 0
  /\ g_temp_edge' = NoEdge
  /\ g_span_edge' = NoEdge
  /\ g_adc_edge' = NoEdge

\* `continue`, or the end of the loop's body
Continue == pc' = "top" /\ LocalsReset

\* line 700: the OSC_RDY pin is read
M_top ==
  /\ pc = "top"
  /\ osc_locked' = (IF osc_rdy THEN 1 ELSE 0)
  /\ g_pass_tx' = 0
  /\ g_prev' = NoEvent
  /\ pc' = "gps_cmp"
  /\ UNCHANGED <<isrVars, envVars, ctlVars, last_dac_value, g_frames,
                 g_suppressed, miscVars, unlocked, obsLocals, histVars>>

\* line 705: gps_locked != last_gps_locked
M_gps_cmp ==
  /\ pc = "gps_cmp"
  /\ pc' = (IF gps_locked # last_gps_locked THEN "gps_save" ELSE "osc_edge")
  /\ UNCHANGED <<isrVars, envVars, ctlVars, dacVars, miscVars, localVars,
                 histVars, g_prev>>

\* line 706: last_gps_locked = gps_locked
M_gps_save ==
  /\ pc = "gps_save"
  /\ last_gps_locked' = gps_locked
  /\ pc' = "gps_test"
  /\ UNCHANGED <<isrVars, envVars, ctlVars, dacVars, last_osc_locked,
                 last_pps_count, clk_ext, button_down, button_blink_time,
                 localVars, histVars, g_prev>>

\* The loss of the fix answered with a reset in mode Start.
GpsUnlockStepReset ==
  IF gps_locked # 0 THEN UNCHANGED <<ctlVars, g_prev, g_streak>>
  ELSE IF mode > 0 THEN downgrade_mode
  ELSE reset_pll

\* lines 707-721: if (gps_locked) ... else if (mode > 0) downgrade_mode()
GpsUnlockStep ==
  IF gps_locked # 0 THEN UNCHANGED <<ctlVars, g_prev, g_streak>>
  ELSE IF mode > 0 THEN downgrade_mode
  ELSE UNCHANGED <<ctlVars, g_prev, g_streak>>

M_gps_test ==
  /\ pc = "gps_test"
  /\ GpsUnlockStep
  /\ pc' = "osc_edge"
  /\ UNCHANGED <<isrVars, envVars, dacVars, miscVars, localVars, fedVars>>

\* The loss of the oscillator's lock answered with the tuning value 0 alone.
OscEdgeStepNoReset ==
  IF osc_locked # last_osc_locked
  THEN /\ last_osc_locked' = osc_locked
       /\ IF osc_locked # 0
          THEN UNCHANGED <<ctlVars, dacVars, g_prev, g_streak>>
          ELSE writeDacValue(0, FALSE) /\ UNCHANGED <<ctlVars, g_prev, g_streak>>
  ELSE UNCHANGED <<last_osc_locked, ctlVars, dacVars, g_prev, g_streak>>

\* lines 725-739: the oscillator's lock changed; on its loss the tuning
\* value 0 is written and the loop is reset
OscEdgeStep ==
  IF osc_locked # last_osc_locked
  THEN /\ last_osc_locked' = osc_locked
       /\ IF osc_locked # 0
          THEN UNCHANGED <<ctlVars, dacVars, g_prev, g_streak>>
          ELSE writeDacValue(0, FALSE) /\ reset_pll
  ELSE UNCHANGED <<last_osc_locked, ctlVars, dacVars, g_prev, g_streak>>

\* lines 725-785: after the lock edge, the switch of the CPU clock to the
\* oscillator once it is locked, which ends the pass
M_osc_edge ==
  /\ pc = "osc_edge"
  /\ OscEdgeStep
  /\ IF osc_locked # 0 /\ ~clk_ext
     THEN clk_ext' = TRUE /\ Continue
     ELSE clk_ext' = clk_ext /\ pc' = "unlk" /\ UNCHANGED localVars
  /\ UNCHANGED <<isrVars, envVars, last_gps_locked, last_pps_count,
                 button_down, button_blink_time, fedVars>>

\* line 787: unlocked = (!gps_locked) || (!osc_locked)
M_unlk ==
  /\ pc = "unlk"
  /\ unlocked' = ((gps_locked = 0) \/ (osc_locked = 0))
  /\ pc' = "buttons"
  /\ UNCHANGED <<isrVars, envVars, ctlVars, dacVars, miscVars, osc_locked,
                 obsLocals, histVars, g_prev>>

\* check_buttons(): 1 when the button has gone down since the last call
\* (the debounce interval only delays the change it reports)
check_buttons(status) == button_down = 0 /\ status = 1

\* The press writing the trim value as a value that is not to be kept.
ButtonStepVolatile(pressed, blink_time) ==
  IF pressed /\ mode = MODE_SLOW /\ blink_time = 0
  THEN /\ writeDacValue(ToLong(DAC_SIGN * trim_value), FALSE)
       /\ button_blink_time' = 1
  ELSE /\ UNCHANGED dacVars
       /\ button_blink_time' = blink_time

\* The press writing the trim value to the store in any mode.
ButtonStepAnyMode(pressed, blink_time) ==
  IF pressed /\ blink_time = 0
  THEN /\ writeDacValue(ToLong(DAC_SIGN * trim_value), TRUE)
       /\ button_blink_time' = 1
  ELSE /\ UNCHANGED dacVars
       /\ button_blink_time' = blink_time

\* lines 821-830: a press in mode Slow, no blink running, writes the trim
\* value to the oscillator's non-volatile store
ButtonStep(pressed, blink_time) ==
  IF pressed /\ mode = MODE_SLOW /\ blink_time = 0
  THEN /\ writeDacValue(ToLong(DAC_SIGN * trim_value), TRUE)
       /\ button_blink_time' = 1
  ELSE /\ UNCHANGED dacVars
       /\ button_blink_time' = blink_time

\* lines 793-830: the blink of the LEDs runs out after BUTTON_BLINK_TICKS,
\* then the button
M_buttons ==
  /\ pc = "buttons"
  /\ \E status \in {0, 1}, blink_time \in {0, button_blink_time} :
       /\ ButtonStep(check_buttons(status), blink_time)
       /\ button_down' = status
  /\ pc' = "chk_pps"
  /\ UNCHANGED <<isrVars, envVars, ctlVars, last_osc_locked, last_gps_locked,
                 last_pps_count, clk_ext, localVars, histVars, g_prev>>

\* line 833: if (last_pps_count == pps_count) continue
M_chk_pps ==
  /\ pc = "chk_pps"
  /\ IF last_pps_count = pps_count
     THEN Continue
     ELSE pc' = "chk_qe" /\ UNCHANGED localVars
  /\ UNCHANGED <<isrVars, envVars, ctlVars, dacVars, miscVars, histVars,
                 g_prev>>

\* The latch found empty counts once only.
QeAbsentOnce == pps_err_buf = <<>> /\ g_deferred < 1

\* pps_err_buf[0] == 0
QeAbsent == pps_err_buf = <<>>

\* line 835: if (pps_err_buf[0] == 0) continue
M_chk_qe ==
  /\ pc = "chk_qe"
  /\ IF QeAbsent
     THEN /\ Continue
          /\ g_deferred' =
               (IF g_deferred < MaxDefer THEN g_deferred + 1 ELSE g_deferred)
     ELSE pc' = "set_last" /\ UNCHANGED <<localVars, g_deferred>>
  /\ UNCHANGED <<isrVars, envVars, ctlVars, dacVars, miscVars, g_fed, g_refed,
                 g_streak, g_prev>>

\* line 836: last_pps_count = pps_count
M_set_last ==
  /\ pc = "set_last"
  /\ last_pps_count' = pps_count
  /\ pc' = "free_run"
  /\ UNCHANGED <<isrVars, envVars, ctlVars, dacVars, last_osc_locked,
                 last_gps_locked, clk_ext, button_down, button_blink_time,
                 localVars, histVars, g_prev>>

\* The observation taken whether or not the pass is free running.
M_free_run_never ==
  /\ pc = "free_run"
  /\ pc' = "copy_qe"
  /\ UNCHANGED <<pps_err_buf, g_qe_edge, localVars>>
  /\ UNCHANGED <<pps_count, irq_adc_value, irq_time_span, gps_locked, envVars,
                 ctlVars, dacVars, miscVars, histVars, g_prev>>

\* lines 855-862: free running, the quantization error is thrown away
M_free_run ==
  /\ pc = "free_run"
  /\ IF unlocked
     THEN /\ pps_err_buf' = <<>>
          /\ g_qe_edge' = NoEdge
          /\ Continue
     ELSE /\ pc' = "copy_qe"
          /\ UNCHANGED <<pps_err_buf, g_qe_edge, localVars>>
  /\ UNCHANGED <<pps_count, irq_adc_value, irq_time_span, gps_locked, envVars,
                 ctlVars, dacVars, miscVars, histVars, g_prev>>

\* lines 864-877: the latch is copied and cleared with interrupts off, and
\* the copy parsed
M_copy_qe ==
  /\ pc = "copy_qe"
  /\ temp' = pps_err_buf
  /\ g_temp_edge' = g_qe_edge
  /\ pps_err_buf' = <<>>
  /\ g_qe_edge' = NoEdge
  /\ pps_err' = Atof(pps_err_buf)
  /\ pc' = "read_span"
  /\ UNCHANGED <<pps_count, irq_adc_value, irq_time_span, gps_locked, envVars,
                 ctlVars, dacVars, miscVars, lockLocals, intracycle_delta,
                 seconds_delta, current_phase_error, time_constant,
                 g_span_edge, g_adc_edge, histVars, g_prev>>

\* The frequency filter taking the observation before the sanity check.
M_read_span_filtering ==
  /\ pc = "read_span"
  /\ LET delta == CycleDelta(irq_time_span)
         sd == SecondsDelta(delta)
         intra == IntracycleDelta(delta, sd)
     IN  IF Erroneous(intra, sd)
         THEN /\ Continue
              /\ g_prev' = Event("discard")
              /\ average_pps_error' =
                   Filtered(average_pps_error, intra, sd + 1,
                            mode_to_tc(mode) \div 10)
              /\ UNCHANGED <<mode, trim_value, iTerm, average_phase_error,
                             exit_timer, enter_timer>>
         ELSE /\ seconds_delta' = sd
              /\ intracycle_delta' = intra
              /\ time_constant' = mode_to_tc(mode)
              /\ g_span_edge' = pps_count
              /\ pc' = "read_adc"
              /\ UNCHANGED <<lockLocals, temp, pps_err, current_phase_error,
                             g_temp_edge, g_adc_edge, g_prev, ctlVars>>
  /\ UNCHANGED <<isrVars, envVars, dacVars, miscVars, histVars>>

\* lines 879-918: irq_time_span is read, the capture interrupt enabled; the
\* span is split into whole seconds and the rest, and the tick is skipped
\* when the rest is more than 100 ppm
M_read_span ==
  /\ pc = "read_span"
  /\ LET delta == CycleDelta(irq_time_span)
         sd == SecondsDelta(delta)
         intra == IntracycleDelta(delta, sd)
     IN  IF Erroneous(intra, sd)
         THEN Continue /\ g_prev' = Event("discard")
         ELSE /\ seconds_delta' = sd
              /\ intracycle_delta' = intra
              /\ time_constant' = mode_to_tc(mode)
              /\ g_span_edge' = pps_count
              /\ pc' = "read_adc"
              /\ UNCHANGED <<lockLocals, temp, pps_err, current_phase_error,
                             g_temp_edge, g_adc_edge, g_prev>>
  /\ UNCHANGED <<isrVars, envVars, ctlVars, dacVars, miscVars, histVars>>

\* lines 923-937: irq_adc_value is read, the capture interrupt enabled; the
\* quantization error is added to the phase error, and both filters take
\* the observation
M_read_adc ==
  /\ pc = "read_adc"
  /\ LET phase_error == PhaseOfAdc(irq_adc_value) + QeCorrection(pps_err)
         filter_time == time_constant \div 10
     IN  /\ current_phase_error' = phase_error
         /\ average_phase_error' =
              Filtered(average_phase_error, phase_error, 1, filter_time)
         /\ average_pps_error' =
              Filtered(average_pps_error, intracycle_delta, seconds_delta + 1,
                       filter_time)
  /\ g_adc_edge' = pps_count
  /\ g_fed' = g_fed \cup {pps_count}
  /\ g_refed' = g_refed \cup (g_fed \cap {pps_count})
  /\ pc' = (IF mode = MODE_START THEN "start" ELSE "hard")
  /\ UNCHANGED <<isrVars, envVars, mode, trim_value, iTerm, exit_timer,
                 enter_timer, dacVars, miscVars, lockLocals, temp, pps_err,
                 intracycle_delta, seconds_delta, time_constant, g_temp_edge,
                 g_span_edge, g_deferred, g_streak, g_prev>>

\* (1000000000.0 / F_CPU) * average_pps_error * START_GAIN,
\* START_GAIN = GAIN / 100.0
StartAdjVal(pps_error) == MulRatio(pps_error * GAIN, 1000000000 \div 100, F_CPU)

\* The way out of the start mode one tick late.
StartExitLate ==
  IF Abs(average_pps_error) <= Scale \div 4
  THEN IF (exit_timer + 1 > 60 /\ Abs(average_phase_error) <= 20 * Scale)
            \/ exit_timer + 1 >= 600
       THEN /\ mode' = MODE_FAST
            /\ exit_timer' = 0
            /\ g_streak' = 0
            /\ g_prev' = Event("exit")
       ELSE /\ mode' = mode
            /\ exit_timer' = exit_timer + 1
            /\ g_streak' = g_streak + 1
            /\ UNCHANGED g_prev
  ELSE mode' = mode /\ exit_timer' = 0 /\ g_streak' = 0 /\ UNCHANGED g_prev

\* The way out of the start mode without its limit of 600 ticks.
StartExitNoLimit ==
  IF Abs(average_pps_error) <= Scale \div 4
  THEN IF exit_timer + 1 >= 60 /\ Abs(average_phase_error) <= 20 * Scale
       THEN /\ mode' = MODE_FAST
            /\ exit_timer' = 0
            /\ g_streak' = 0
            /\ g_prev' = Event("exit")
       ELSE /\ mode' = mode
            /\ exit_timer' = exit_timer + 1
            /\ g_streak' = g_streak + 1
            /\ UNCHANGED g_prev
  ELSE mode' = mode /\ exit_timer' = 0 /\ g_streak' = 0 /\ UNCHANGED g_prev

\* lines 984-999: the way out of the start mode
StartExit ==
  IF Abs(average_pps_error) <= Scale \div 4
  THEN IF (exit_timer + 1 >= 60 /\ Abs(average_phase_error) <= 20 * Scale)
            \/ exit_timer + 1 >= 600
       THEN /\ mode' = MODE_FAST
            /\ exit_timer' = 0
            /\ g_streak' = 0
            /\ g_prev' = Event("exit")
       ELSE /\ mode' = mode
            /\ exit_timer' = exit_timer + 1
            /\ g_streak' = g_streak + 1
            /\ UNCHANGED g_prev
  ELSE mode' = mode /\ exit_timer' = 0 /\ g_streak' = 0 /\ UNCHANGED g_prev

\* lines 952-1001: the frequency locked loop
M_start ==
  /\ pc = "start"
  /\ trim_value' = trim_value - StartAdjVal(average_pps_error)
  /\ writeDacValue(ToLong(DAC_SIGN * trim_value'), FALSE)
  /\ StartExit
  /\ Continue
  /\ UNCHANGED <<isrVars, envVars, iTerm, average_phase_error,
                 average_pps_error, enter_timer, miscVars, fedVars>>

\* fabs(average_pps_error) >= 0.5
HardBound == Abs(average_pps_error) >= Scale \div 2

\* The reset for the frequency error without the `continue` after it.
M_hard_through ==
  /\ pc = "hard"
  /\ IF HardBound
     THEN reset_pll /\ pc' = "upgrade" /\ UNCHANGED localVars
     ELSE pc' = "upgrade" /\ UNCHANGED <<ctlVars, localVars, g_prev, g_streak>>
  /\ UNCHANGED <<isrVars, envVars, dacVars, miscVars, fedVars>>

\* lines 1003-1014: more than 50 ppb, start over
M_hard ==
  /\ pc = "hard"
  /\ IF HardBound
     THEN reset_pll /\ Continue
     ELSE pc' = "upgrade" /\ UNCHANGED <<ctlVars, localVars, g_prev, g_streak>>
  /\ UNCHANGED <<isrVars, envVars, dacVars, miscVars, fedVars>>

\* The test for an upgrade with a count that grows with mode, not with its
\* square.
UpgradeStepLinear ==
  IF mode # MODE_SLOW
  THEN IF Abs(average_phase_error) <= 5 * Scale
       THEN IF exit_timer + 1 >= 200 * mode
            THEN /\ exit_timer' = 0
                 /\ mode' = mode + 1
                 /\ time_constant' = mode_to_tc(mode + 1)
                 /\ iTerm' = Rescaled(iTerm, mode, mode + 1)
                 /\ g_streak' = 0
                 /\ g_prev' = Event("up")
            ELSE /\ exit_timer' = exit_timer + 1
                 /\ g_streak' = g_streak + 1
                 /\ UNCHANGED <<mode, time_constant, iTerm, g_prev>>
       ELSE /\ exit_timer' = 0
            /\ g_streak' = 0
            /\ UNCHANGED <<mode, time_constant, iTerm, g_prev>>
  ELSE UNCHANGED <<exit_timer, mode, time_constant, iTerm, g_prev, g_streak>>

\* lines 1016-1043: the test for an upgrade
UpgradeStep ==
  IF mode # MODE_SLOW
  THEN IF Abs(average_phase_error) <= 5 * Scale
       THEN IF exit_timer + 1 >= 200 * mode * mode
            THEN /\ exit_timer' = 0
                 /\ mode' = mode + 1
                 /\ time_constant' = mode_to_tc(mode + 1)
                 /\ iTerm' = Rescaled(iTerm, mode, mode + 1)
                 /\ g_streak' = 0
                 /\ g_prev' = Event("up")
            ELSE /\ exit_timer' = exit_timer + 1
                 /\ g_streak' = g_streak + 1
                 /\ UNCHANGED <<mode, time_constant, iTerm, g_prev>>
       ELSE /\ exit_timer' = 0
            /\ g_streak' = 0
            /\ UNCHANGED <<mode, time_constant, iTerm, g_prev>>
  ELSE UNCHANGED <<exit_timer, mode, time_constant, iTerm, g_prev, g_streak>>

M_upgrade ==
  /\ pc = "upgrade"
  /\ UpgradeStep
  /\ pc' = "downgrade"
  /\ UNCHANGED <<isrVars, envVars, trim_value, average_phase_error,
                 average_pps_error, enter_timer, dacVars, miscVars, lockLocals,
                 temp, pps_err, intracycle_delta, seconds_delta,
                 current_phase_error, g_temp_edge, g_span_edge, g_adc_edge,
                 fedVars>>

\* The check for a downgrade made in mode Fast as well.
DowngradeStepAnyMode ==
  IF enter_timer > 0
  THEN /\ enter_timer' = enter_timer - 1
       /\ UNCHANGED <<mode, iTerm, trim_value, average_phase_error,
                      average_pps_error, exit_timer, time_constant,
                      g_prev, g_streak>>
  ELSE IF Abs(average_phase_error) >= 50 * mode * Scale
       THEN downgrade_mode /\ time_constant' = mode_to_tc(mode')
       ELSE UNCHANGED <<ctlVars, time_constant, g_prev, g_streak>>

\* The check for a downgrade made whatever enter_timer is.
DowngradeStepNoWait ==
  IF mode # MODE_FAST
  THEN IF Abs(average_phase_error) >= 50 * mode * Scale
       THEN downgrade_mode /\ time_constant' = mode_to_tc(mode')
       ELSE /\ enter_timer' = (IF enter_timer > 0 THEN enter_timer - 1 ELSE 0)
            /\ UNCHANGED <<mode, iTerm, trim_value, average_phase_error,
                           average_pps_error, exit_timer, time_constant,
                           g_prev, g_streak>>
  ELSE UNCHANGED <<ctlVars, time_constant, g_prev, g_streak>>

\* lines 1044-1056: the check for a downgrade
DowngradeStep ==
  IF mode # MODE_FAST
  THEN IF enter_timer > 0
       THEN /\ enter_timer' = enter_timer - 1
            /\ UNCHANGED <<mode, iTerm, trim_value, average_phase_error,
                           average_pps_error, exit_timer, time_constant,
                           g_prev, g_streak>>
       ELSE IF Abs(average_phase_error) >= 50 * mode * Scale
            THEN downgrade_mode /\ time_constant' = mode_to_tc(mode')
            ELSE UNCHANGED <<ctlVars, time_constant, g_prev, g_streak>>
  ELSE UNCHANGED <<ctlVars, time_constant, g_prev, g_streak>>

M_downgrade ==
  /\ pc = "downgrade"
  /\ DowngradeStep
  /\ pc' = "pi"
  /\ UNCHANGED <<isrVars, envVars, dacVars, miscVars, lockLocals, temp,
                 pps_err, intracycle_delta, seconds_delta,
                 current_phase_error, g_temp_edge, g_span_edge, g_adc_edge,
                 fedVars>>

\* The PI loop off-loading the integral term to the wrong side of the trim
\* value.
PiStepTrimAdded ==
  LET pTerm == average_phase_error * GAIN
      iTerm1 == iTerm + RDiv(pTerm * DAMPING_DEN, time_constant * DAMPING_NUM)
      iTerm_modulo == 1000 * time_constant * Scale
      sign == IF iTerm1 < 0 THEN -1 ELSE 1
  IN  /\ writeDacValue(PiDacValue(trim_value, iTerm1, pTerm, time_constant),
                       FALSE)
      /\ IF Abs(iTerm1) > iTerm_modulo
         THEN /\ iTerm' = iTerm1 - (sign * iTerm_modulo)
              /\ trim_value' = trim_value + (sign * 1000 * Scale)
         ELSE /\ iTerm' = iTerm1
              /\ trim_value' = trim_value

\* lines 1076-1099: the PI loop, its output written to the oscillator, and
\* the integral term off-loaded to the trim value when it grows too large
PiStep ==
  LET pTerm == average_phase_error * GAIN
      iTerm1 == iTerm + RDiv(pTerm * DAMPING_DEN, time_constant * DAMPING_NUM)
      iTerm_modulo == 1000 * time_constant * Scale
      sign == IF iTerm1 < 0 THEN -1 ELSE 1
  IN  /\ writeDacValue(PiDacValue(trim_value, iTerm1, pTerm, time_constant),
                       FALSE)
      /\ IF Abs(iTerm1) > iTerm_modulo
         THEN /\ iTerm' = iTerm1 - (sign * iTerm_modulo)
              /\ trim_value' = trim_value - (sign * 1000 * Scale)
         ELSE /\ iTerm' = iTerm1
              /\ trim_value' = trim_value

M_pi ==
  /\ pc = "pi"
  /\ PiStep
  /\ Continue
  /\ UNCHANGED <<isrVars, envVars, mode, average_phase_error,
                 average_pps_error, exit_timer, enter_timer, miscVars,
                 histVars, g_prev>>

\* ------------------------------------------------------------ specification

MainLoop ==
  \/ M_top
  \/ M_gps_cmp
  \/ M_gps_save
  \/ M_gps_test
  \/ M_osc_edge
  \/ M_unlk
  \/ M_buttons
  \/ M_chk_pps
  \/ M_chk_qe
  \/ M_set_last
  \/ M_free_run
  \/ M_copy_qe
  \/ M_read_span
  \/ M_read_adc
  \/ M_start
  \/ M_hard
  \/ M_upgrade
  \/ M_downgrade
  \/ M_pi

Next ==
  \/ PpsPulse
  \/ ISR_USARTC0_RXC
  \/ OscRdyPin
  \/ MainLoop

Spec == Init /\ [][Next]_vars

\* ------------------------------------------------------------ the nominal run

\* The program enters its loop with the receiver's fix valid and the
\* oscillator locked; the receiver reports either no quantization error or
\* one of zero, the same in every sentence.
InitNominal == \E receiver \in {"none", "zero"} : Booted(1, TRUE, receiver)

\* A pulse exactly F_CPU counts after the one before, the phase
\* discriminator at its midpoint.  A second is long for the loop: the pulse
\* finds the sentence for the pulse before received, and the loop at the
\* top of a pass with that capture either processed or passed over for its
\* empty latch.
NominalPulse ==
  /\ pps_count < NominalTicks
  /\ pc = "top"
  /\ g_line_edge = pps_count
  /\ \/ last_pps_count = pps_count
     \/ pps_err_buf = <<>> /\ g_deferred >= 1
  /\ TCC5_CCA_vect(PHASE_ADC_MIDPOINT, F_CPU)

NominalLine ==
  \E line \in NominalLines(g_receiver, pps_count, g_line_edge) : Receive(line)

NextNominal ==
  \/ NominalPulse
  \/ NominalLine
  \/ MainLoop

SpecNominal == InitNominal /\ [][NextNominal]_vars

\* The loop never stops (while (1), with the watchdog running), the receiver
\* sends a pulse every second, and its sentences after every pulse.
SpecNominalFair ==
  /\ SpecNominal
  /\ WF_vars(MainLoop)
  /\ SF_vars(NominalPulse)
  /\ SF_vars(NominalLine)

\* ------------------------------------------------------------ the steady run

\* What every pulse of a steady run is like: nominal; on frequency with the
\* phase at the edge of its window (512 ns); and 4 counts long (0.4 units of
\* frequency error) with the phase at the midpoint.
SteadyInputs ==
  { [adc |-> PHASE_ADC_MIDPOINT, span |-> F_CPU],
    [adc |-> 0, span |-> F_CPU],
    [adc |-> PHASE_ADC_MIDPOINT, span |-> F_CPU + 4] }

\* The program enters its loop with the fix valid and the oscillator locked,
\* the receiver reporting a quantization error of zero.
InitSteady == Booted(1, TRUE, "zero")

\* A pulse like the one before it (the first one any of SteadyInputs), once
\* the loop has processed the capture before.
SteadyPulse ==
  /\ pps_count < SteadyTicks
  /\ pc = "top"
  /\ g_line_edge = pps_count
  /\ last_pps_count = pps_count
  /\ \E p \in SteadyInputs :
       /\ pps_count > 0 => (p.adc = irq_adc_value /\ p.span = irq_time_span)
       /\ TCC5_CCA_vect(p.adc, p.span)

NextSteady ==
  \/ SteadyPulse
  \/ NominalLine
  \/ MainLoop

SpecSteady == InitSteady /\ [][NextSteady]_vars

\* ------------------------------------------------------------ the serial line

\* The interrupts alone, main() at the top of its loop, on a serial line
\* with faults: every sentence arrives with its checksum right or wrong.
InitGps == \E fix \in {0, 1} : Booted(fix, FALSE, "any")

FaultyLine ==
  \E line \in { s \in FaultySentences :
                  s.kind = "PSTI" => g_line_edge < pps_count } : Receive(line)

NextGps ==
  \/ PpsPulse
  \/ FaultyLine

SpecGps == InitGps /\ [][NextGps]_vars

\* ------------------------------------------------------------ the encoder

\* Tuning values over the whole range of a long: small ones of either sign,
\* the ones around the largest value whose shifted payload fits 32 bits
\* (2^29 - 1 and -2^29), and the ends of the range.
TuningValues ==
  { 0, 1, -1, 2, 63, 64, -64, 255, 256, -257, 15000, -15000, 65536, -65537,
    16777216, -16777217, (2 ^ 29) - 1, 2 ^ 29, -(2 ^ 29), -(2 ^ 29) - 1,
    (2 ^ 30) - 1, 2 ^ 30, -(2 ^ 30), LONG_MAX, -LONG_MAX - 1 }

\* writeDacValue() alone, called with any value and either flag.
DacWrite ==
  /\ g_pass_tx < MaxWrites
  /\ \E value \in TuningValues, non_volatile \in BOOLEAN :
       writeDacValue(value, non_volatile)
  /\ UNCHANGED <<isrVars, envVars, ctlVars, miscVars, pc, localVars, histVars,
                 g_prev>>

SpecDac == InitBoot /\ [][DacWrite]_vars

\* ------------------------------------------------------------ properties

\* The observation of this pass has been fed to the filters.
Fed == pc \in {"start", "hard"}

\* The value a frame carries: its payload, a two's complement number of 32
\* bits, without the BIT_REDUCE bits added on the right.
FrameValue(f) ==
  ((((IF f[5] >= 128 THEN f[5] - 256 ELSE f[5]) * (2 ^ 24))
      + (f[6] * (2 ^ 16))) + ((f[7] * (2 ^ 8)) + f[8])) \div (2 ^ BIT_REDUCE)

\* The engine's state before the event recorded in g_prev.
PrevMode == g_prev.ctl[1]
PrevTrim == g_prev.ctl[2]
PrevITerm == g_prev.ctl[3]

\* reset_pll() is about to be called: the oscillator has lost its lock
\* (line 736), or the frequency error has left its bound (line 1012).
ResetEvent ==
  \/ pc = "osc_edge" /\ osc_locked # last_osc_locked /\ osc_locked = 0
  \/ pc = "hard" /\ HardBound

\* C1: every observation fed to the filters takes its ADC reading and its
\* cycle span from one pulse, the pulse whose count the loop has recorded in
\* last_pps_count.
C1_ObservationOfOnePulse ==
  Fed => (g_span_edge = last_pps_count /\ g_adc_edge = last_pps_count)

\* C2: the capture of pulse N is never fused with a quantization error the
\* receiver reported for a pulse before N.
C2_QeNotOfEarlierPulse ==
  (Fed /\ g_temp_edge # NoEdge)
    => (g_temp_edge >= g_span_edge /\ g_temp_edge >= g_adc_edge)

\* C3: every capture is processed exactly once with exactly one quantization
\* error: none is fed to the filters twice, none is fed with an empty latch,
\* and last_pps_count advances only over a capture whose quantization error
\* has arrived.
C3_ExactlyOnce ==
  /\ [](g_refed = {})
  /\ [](Fed => temp # <<>>)
  /\ [][(pc = "set_last" /\ pc' = "free_run") => pps_err_buf # <<>>]_vars

\* C4 as the specification states it: every write that changes mode moves it
\* by exactly one step within Start..Slow, the resets included.
C4_OneStepAlways ==
  [][mode' # mode =>
       (mode' \in MODE_START..MODE_SLOW /\ Abs(mode' - mode) = 1)]_vars

\* C4, amended: every write that changes mode keeps it within Start..Slow; a
\* promotion or a downgrade moves it by exactly one step, and a reset
\* (oscillator unlock, hard frequency bound) sets it to Start from any mode.
C4_ModeWrites ==
  [][mode' # mode =>
       (/\ mode' \in MODE_START..MODE_SLOW
        /\ IF ResetEvent THEN mode' = MODE_START
           ELSE Abs(mode' - mode) = 1)]_vars

\* A reset has taken the engine from Med or Slow straight to Start.
C4_Witness ==
  g_prev.event = "reset" /\ PrevMode >= MODE_MED /\ mode = MODE_START

\* The main loop has found the fix status changed, and reads it as invalid
\* (line 707).
GpsLossSeen == pc = "gps_test" /\ gps_locked = 0 /\ pc' = "osc_edge"

C6_FoldAdded ==
  g_prev.event = "reset" =>
    /\ trim_value = PrevTrim + RDiv(PrevITerm, mode_to_tc(PrevMode))
    /\ iTerm = 0
    /\ exit_timer = 0

\* C6, amended: after reset_pll() called in mode Fast, Med or Slow
\* trim_value is trim_value_before - i_term_before / tc(mode_before); called
\* in mode Start it leaves trim_value as it is; i_term and exit_timer are 0
\* either way.
C6_FoldSubtracted ==
  g_prev.event = "reset" =>
    /\ trim_value =
         (IF PrevMode # MODE_START
          THEN PrevTrim - RDiv(PrevITerm, mode_to_tc(PrevMode))
          ELSE PrevTrim)
    /\ iTerm = 0
    /\ exit_timer = 0

\* reset_pll() has folded an integral term worth more than one unit into the
\* trim value.
C6_Witness ==
  /\ g_prev.event = "reset"
  /\ PrevMode # MODE_START
  /\ Abs(PrevITerm) > mode_to_tc(PrevMode)
  /\ trim_value # PrevTrim

\* C7: a frame is sent only when the value asked for differs from
\* last_dac_value, and last_dac_value is the value of the last frame sent: no
\* two frames in a row carry the same value.
C7_NoRepeatedFrame ==
  /\ Len(g_frames) >= 1 => FrameValue(g_frames[Len(g_frames)]) = last_dac_value
  /\ Len(g_frames) = 2 => FrameValue(g_frames[1]) # FrameValue(g_frames[2])

\* Two frames have been sent, and a call has returned without sending.
C7_Witness == Len(g_frames) = 2 /\ g_suppressed

\* The pass finds a capture whose quantization error is not there (line 835).
QeMissing == pc = "chk_qe" /\ pps_err_buf = <<>> /\ pc' # pc

\* C8 as the specification states it: a capture without quantization error
\* is deferred for one pass and then fed to the filters with zero correction.
C8_DeferredOnce ==
  [][(QeMissing /\ g_deferred >= 1) => pc' = "set_last"]_vars

\* C8, amended: a pass that finds no quantization error for the capture ends
\* there, however many passes the capture has waited: it does not advance
\* last_pps_count, feeds nothing to the filters, leaves the engine's state as
\* it is and sends no frame.
C8_DeferredUntilQe ==
  [][QeMissing =>
       /\ pc' = "top"
       /\ UNCHANGED <<last_pps_count, g_fed, ctlVars, dacVars>>]_vars

\* The receiver has sent its sentence for the pulse without a quantization
\* error the loop could latch, and the capture has waited MaxDefer passes
\* and is still not processed.
C8_Witness ==
  /\ g_deferred >= MaxDefer
  /\ pc = "top"
  /\ last_pps_count # pps_count
  /\ pps_count \notin g_fed
  /\ g_line_edge = pps_count
  /\ pps_err_buf = <<>>

\* C9: a tick whose observation fails the sanity check leaves mode,
\* trim_value, i_term, both averages, both timers and last_dac_value as they
\* were and sends no frame.
C9_DiscardChangesNothing ==
  g_prev.event = "discard" =>
    /\ ctlVars = g_prev.ctl
    /\ last_dac_value = g_prev.dac
    /\ g_pass_tx = g_prev.tx

\* An observation has been discarded in a mode of the phase locked loop with
\* the filters and the integral term in use.
C9_Witness ==
  /\ g_prev.event = "discard"
  /\ pc = "top"
  /\ mode # MODE_START
  /\ iTerm # 0
  /\ average_phase_error # 0

\* new_i is old_i * tc(new_mode) / tc(old_mode), to the nearest unit (the
\* first conjunct keeps the products of the second within 32 bits).
IsRescaled(old_i, new_i, old_mode, new_mode) ==
  LET g == Gcd(mode_to_tc(new_mode), mode_to_tc(old_mode))
      num == mode_to_tc(new_mode) \div g
      den == mode_to_tc(old_mode) \div g
  IN  /\ Abs(new_i) <= ((Abs(old_i) \div den) + 1) * num
      /\ Abs((new_i * den) - (old_i * num)) <= den \div 2

\* The state right after a promotion (line 1035) or a downgrade (line 492).
JustRescaled ==
  \/ g_prev.event = "up" /\ pc = "downgrade"
  \/ g_prev.event = "down" /\ pc \in {"pi", "osc_edge"}

\* C10: on every promotion and every downgrade i_term is multiplied by
\* tc(new mode) / tc(old mode), so that i_term / tc(mode) is the same before
\* and after.
C10_ITermRescaled ==
  JustRescaled =>
    /\ IsRescaled(PrevITerm, iTerm, PrevMode, mode)
    /\ Abs(RDiv(iTerm, mode_to_tc(mode))
             - RDiv(PrevITerm, mode_to_tc(PrevMode))) <= 1

\* A promotion or a downgrade has changed the time constant with the
\* integral term in use.
C10_Witness ==
  /\ JustRescaled
  /\ mode_to_tc(mode) # mode_to_tc(PrevMode)
  /\ PrevITerm # 0
  /\ iTerm # PrevITerm

\* The ticks so far: the captures fed to the filters.
Ticks == Cardinality(g_fed)

\* The loop has passed over the last capture with its latch empty, after
\* the receiver's sentence for it.
PassedOver ==
  /\ pc = "top"
  /\ g_line_edge = pps_count
  /\ last_pps_count # pps_count
  /\ pps_err_buf = <<>>
  /\ g_deferred >= 1

\* C11 as the specification states it: in the nominal run with an empty
\* quantization error text in every sentence, mode is Start before the 60th
\* pulse and Fast once the loop has dealt with the 60th pulse.
C11_EmptyQePromotes ==
  g_receiver = "none" =>
    /\ pps_count < 60 => mode = MODE_START
    /\ (pps_count >= 60 /\ PassedOver) => mode = MODE_FAST

\* C11, amended: in the nominal run (fix valid, oscillator locked, every
\* pulse F_CPU counts long with the phase at the midpoint) with a
\* quantization error of zero in every sentence, mode is Start up to the 60th
\* tick and changes to Fast on the 60th tick; with an empty quantization
\* error text in every sentence no capture is processed at all, and mode
\* stays Start.
C11_PromotedOnTick60 ==
  /\ g_receiver = "zero" =>
       /\ mode = MODE_START <=> (Ticks < 60 \/ (Ticks = 60 /\ pc = "start"))
       /\ (Ticks >= 60 /\ Ticks < 260 /\ mode # MODE_START) => mode = MODE_FAST
  /\ g_receiver = "none" => (g_fed = {} /\ mode = MODE_START)

\* The 60th tick has promoted the engine.
C11_Witness ==
  /\ g_receiver = "zero"
  /\ Ticks = 60
  /\ pps_count = 60
  /\ g_prev.event = "exit"
  /\ mode = MODE_FAST

\* C12: when the main loop finds the fix lost in mode Slow it sets mode to
\* Med and enter_timer to 300, multiplies i_term by tc(Med)/tc(Slow), and
\* leaves trim_value, both averages and exit_timer as they are.
C12_GpsLossInSlow ==
  [][(GpsLossSeen /\ mode = MODE_SLOW) =>
       /\ mode' = MODE_MED
       /\ enter_timer' = 300
       /\ IsRescaled(iTerm, iTerm', MODE_SLOW, MODE_MED)
       /\ UNCHANGED <<trim_value, average_phase_error, average_pps_error,
                      exit_timer>>]_vars

\* The loss of the fix has taken the engine from Slow to Med with an
\* integral term in use.
C12_Witness ==
  /\ g_prev.event = "down"
  /\ pc = "osc_edge"
  /\ PrevMode = MODE_SLOW
  /\ mode = MODE_MED
  /\ enter_timer = 300
  /\ PrevITerm # 0
  /\ iTerm # PrevITerm

\* C13: in the nominal run with a quantization error of zero every second
\* both averages stay 0 and mode never decreases: there is no downgrade and
\* no reset.
C13_ZeroErrorsKeepMode ==
  /\ [](average_phase_error = 0 /\ average_pps_error = 0)
  /\ [](g_prev.event \notin {"down", "reset"})
  /\ [][mode' >= mode]_vars

\* The engine has gone through every mode on zero errors and has run two
\* ticks of the phase locked loop in mode Slow.
C13_Witness ==
  /\ g_receiver = "zero"
  /\ mode = MODE_SLOW
  /\ Ticks >= 1062
  /\ pc = "top"
  /\ last_dac_value = 0

\* The two characters at the end of the line are not the hexadecimal digits
\* of the exclusive or of the characters between "$" and "*".
ChecksumMismatch(text) ==
  LET sum == BodyChecksum(SubSeq(text, 1, Len(text) - 3), 2)
  IN  SubSeq(text, Len(text) - 1, Len(text))
        # << HexDigits[(sum \div 16) + 1], HexDigits[(sum % 16) + 1] >>

\* The lines of every shape that arrive with a checksum that does not match.
MismatchedLines == { line \in FaultySentences : ChecksumMismatch(line.text) }

\* C14: a complete $GPGSA, $GPRMC or $PSTI,00 line whose checksum does not
\* match leaves gps_locked and pps_err_buf as they are.
C14_BadChecksumIgnored ==
  [][\A line \in MismatchedLines :
       Receive(line) => UNCHANGED <<gps_locked, pps_err_buf>>]_vars

\* The $PSTI,00 for the second pulse has been rejected for its checksum:
\* the receiver has sent it, and the latch still holds the quantization
\* error of the first pulse, the fix valid.
C14_Witness ==
  /\ g_rejected
  /\ g_line_edge = 2
  /\ g_qe_edge = 1
  /\ pps_err_buf # <<>>
  /\ gps_locked = 1

\* The persistence flag a frame carries: its command is 0x2c.
FramePersists(f) == f[1] = 44

\* C15 as the specification states it: at most one frame is sent in one pass
\* of the main loop.
C15_AtMostOneFrame == g_pass_tx <= 1

\* C15, amended: in one pass of the main loop each of the three writers (the
\* oscillator's loss of lock, the button, the control engine) sends at most
\* one frame, and at most one frame that is not to be kept is sent; a pass in
\* mode Slow with the button pressed and a capture to process sends two
\* frames, the first the button's (to be kept) and the second the engine's.
C15_OneFramePerWriter ==
  /\ g_pass_tx <= 2
  /\ g_pass_tx = 2 =>
       /\ FramePersists(g_frames[1])
       /\ ~FramePersists(g_frames[2])

\* A pass has sent the button's frame and then the engine's.
C15_Witness ==
  /\ g_pass_tx = 2
  /\ pc = "top"
  /\ mode = MODE_SLOW
  /\ button_blink_time # 0
  /\ FrameValue(g_frames[1]) # FrameValue(g_frames[2])

\* The frame just sent.
LastFrame == g_frames'[Len(g_frames')]

\* The payload checksum of a frame is the exclusive or of its payload.
PayloadChecked(f) == f[9] = Xor8(Xor8(Xor8(f[5], f[6]), f[7]), f[8])

\* The value in -2^29 .. 2^29 - 1 that differs from v by a multiple of 2^30.
Wrapped30(v) == ((((v % (2 ^ 30)) + (2 ^ 29)) % (2 ^ 30))) - (2 ^ 29)

\* C16 as the specification states it: the frame writeDacValue() sends for
\* any value and flag decodes to that value and that flag.
C16_RoundTrip ==
  [][\A value \in TuningValues, non_volatile \in BOOLEAN :
       (value # last_dac_value /\ writeDacValue(value, non_volatile))
         => /\ FrameValue(LastFrame) = value
            /\ FramePersists(LastFrame) = non_volatile
            /\ PayloadChecked(LastFrame)]_vars

\* C16, amended: the frame decodes to the flag, and to the value when the
\* value is within -2^29 .. 2^29 - 1; the shift by BIT_REDUCE drops the top
\* BIT_REDUCE bits of a value outside that range, and the frame decodes to
\* the value within the range that differs from it by a multiple of 2^30.
C16_RoundTripInRange ==
  [][\A value \in TuningValues, non_volatile \in BOOLEAN :
       (value # last_dac_value /\ writeDacValue(value, non_volatile))
         => /\ FrameValue(LastFrame) = Wrapped30(value)
            /\ (value >= -(2 ^ 29) /\ value < 2 ^ 29)
                 => FrameValue(LastFrame) = value
            /\ FramePersists(LastFrame) = non_volatile
            /\ PayloadChecked(LastFrame)]_vars

\* A negative value within the range has been sent to be kept, and then a
\* value beyond the range.
C16_Witness ==
  /\ Len(g_frames) = 2
  /\ FramePersists(g_frames[1])
  /\ FrameValue(g_frames[1]) = -15000
  /\ last_dac_value >= 2 ^ 29
  /\ FrameValue(g_frames[2]) = last_dac_value - (2 ^ 30)

\* C17: mode changes from Start to Fast only on a tick that is at least the
\* 60th in a row in mode Start with |average_pps_error| <= 0.25, with
\* |average_phase_error| <= 20, or at least the 600th such tick in a row.
C17_StartExitAfter60 ==
  [][(mode = MODE_START /\ mode' = MODE_FAST) =>
       \/ /\ g_streak + 1 >= 60
          /\ Abs(average_phase_error) <= 20 * Scale
       \/ g_streak + 1 >= 600]_vars

\* C18: mode changes from Fast to Med or from Med to Slow only on a tick that
\* is at least the (200 * mode * mode)-th in a row in that mode with
\* |average_phase_error| <= 5, and exit_timer is 0 after the promotion.
C18_PromotionAfterStreak ==
  [][(mode \in {MODE_FAST, MODE_MED} /\ mode' = mode + 1) =>
       /\ g_streak + 1 >= 200 * mode * mode
       /\ exit_timer' = 0]_vars

\* C19: reset_pll() called in mode Fast, Med or Slow takes i_term / tc(mode)
\* from trim_value, called in mode Start it leaves trim_value as it is; it
\* ends with mode Start and with i_term, both averages and exit_timer 0, and
\* it leaves enter_timer and last_dac_value as they are (last_dac_value is 0
\* when the caller has sent the frame of line 735 before the call).
C19_ResetPll ==
  g_prev.event = "reset" =>
    /\ trim_value =
         (IF PrevMode # MODE_START
          THEN PrevTrim - RDiv(PrevITerm, mode_to_tc(PrevMode))
          ELSE PrevTrim)
    /\ mode = MODE_START
    /\ iTerm = 0
    /\ average_phase_error = 0
    /\ average_pps_error = 0
    /\ exit_timer = 0
    /\ enter_timer = g_prev.ctl[7]
    /\ last_dac_value = (IF g_pass_tx = g_prev.tx THEN g_prev.dac ELSE 0)

\* reset_pll() has been called in mode Med with everything it writes in
\* use, enter_timer running, and no frame sent in the pass.
C19_Witness ==
  /\ g_prev.event = "reset"
  /\ PrevMode = MODE_MED
  /\ PrevITerm # 0
  /\ g_prev.ctl[4] # 0
  /\ g_prev.ctl[5] # 0
  /\ enter_timer > 0
  /\ g_pass_tx = 0
  /\ last_dac_value # 0
  /\ trim_value # PrevTrim

\* The check for a downgrade is reached on a tick with the filtered phase
\* error beyond 50 * mode and enter_timer 0.
DowngradeDue ==
  /\ pc = "downgrade"
  /\ pc' = "pi"
  /\ enter_timer = 0
  /\ Abs(average_phase_error) > 50 * mode * Scale

\* C20 as the specification states it: such a tick lowers mode by one step
\* in each of the modes Fast, Med and Slow.
C20_PhaseDowngradeAll ==
  [][(DowngradeDue /\ mode \in {MODE_FAST, MODE_MED, MODE_SLOW})
       => mode' = mode - 1]_vars

\* C20, amended: in mode Med and in mode Slow a tick that reaches the check
\* for a downgrade with the filtered phase error beyond 50 * mode and
\* enter_timer 0 lowers mode by one step and sets enter_timer to 100 times
\* the old mode; in mode Fast the check is not made, and the tick leaves the
\* engine's mode and timers as they are.
C20_PhaseDowngradeMedSlow ==
  [][DowngradeDue =>
       IF mode \in {MODE_MED, MODE_SLOW}
       THEN mode' = mode - 1 /\ enter_timer' = 100 * mode
       ELSE UNCHANGED ctlVars]_vars

\* The phase error has taken the engine down from mode Slow.
C20_Witness ==
  /\ g_prev.event = "down"
  /\ pc = "pi"
  /\ PrevMode = MODE_SLOW
  /\ mode = MODE_MED
  /\ Abs(average_phase_error) > 150 * Scale
  /\ enter_timer = 300

\* The main loop sees the oscillator's lock lost (line 725, osc_locked 0
\* after 1).
OscLossSeen == pc = "osc_edge" /\ last_osc_locked = 1 /\ osc_locked = 0

\* C21: when the main loop sees the oscillator's lock lost it resets the
\* engine to Start in that pass, before any observation is processed (the
\* integral term folded into the trim value as reset_pll() folds it); and
\* from then on, until the loop sees the lock again, mode is Start, the
\* averages, i_term and exit_timer are 0, and no step changes the engine's
\* state or feeds an observation to the filters.
C21_OscUnlockResets ==
  /\ [][OscLossSeen =>
          /\ mode' = MODE_START
          /\ trim_value' =
               (IF mode # MODE_START
                THEN trim_value - RDiv(iTerm, mode_to_tc(mode))
                ELSE trim_value)
          /\ iTerm' = 0
          /\ average_phase_error' = 0
          /\ average_pps_error' = 0
          /\ exit_timer' = 0
          /\ g_fed' = g_fed]_vars
  /\ [](last_osc_locked = 0 =>
          /\ mode = MODE_START
          /\ iTerm = 0
          /\ average_phase_error = 0
          /\ average_pps_error = 0
          /\ exit_timer = 0
          /\ ~Fed)
  /\ [][(last_osc_locked = 0 /\ last_osc_locked' = 0) =>
          UNCHANGED <<ctlVars, g_fed>>]_vars

\* The lock has been lost in a mode of the phase locked loop, the integral
\* term has been folded, and the capture of the pulse that came after it has
\* been consumed without a tick, the oscillator still unlocked.
C21_Witness ==
  /\ last_osc_locked = 0
  /\ ~osc_rdy
  /\ pc = "top"
  /\ pps_count = MaxPulses
  /\ last_pps_count = pps_count
  /\ pps_count \notin g_fed
  /\ g_line_edge = pps_count
  /\ last_dac_value = 0
  /\ \A r \in LongRuns : trim_value # r.trim

\* C22: a tick in mode Fast, Med or Slow whose updated |average_pps_error|
\* is 0.5 or more resets the engine to Start (reset_pll()), sends no frame,
\* and ends there: the checks for a promotion and a downgrade and the PI
\* update are not made.
C22_HardBoundResets ==
  [][(pc = "hard" /\ HardBound) =>
       /\ mode \in {MODE_FAST, MODE_MED, MODE_SLOW}
       /\ mode' = MODE_START
       /\ trim_value' = trim_value - RDiv(iTerm, mode_to_tc(mode))
       /\ iTerm' = 0
       /\ average_phase_error' = 0
       /\ average_pps_error' = 0
       /\ exit_timer' = 0
       /\ pc' = "top"
       /\ UNCHANGED <<enter_timer, dacVars>>]_vars

\* A tick in Fast, Med or Slow has ended with the reset for the frequency
\* error, the integral term folded, no frame sent after the state the reset
\* found.
C22_Witness ==
  /\ g_prev.event = "reset"
  /\ pc = "top"
  /\ PrevMode # MODE_START
  /\ Abs(g_prev.ctl[5]) >= Scale \div 2
  /\ Abs(PrevITerm) > mode_to_tc(PrevMode)
  /\ pps_count \in g_fed
  /\ last_pps_count = pps_count
  /\ g_pass_tx = g_prev.tx
  /\ last_dac_value = g_prev.dac

\* C23 as the specification states it: with the fix valid, the oscillator
\* locked and every observation accepted, mode Start is left by the 600th
\* tick, whatever the two averages are.
C23_FastWithin600 ==
  (Ticks >= 600 /\ pc = "top" /\ last_pps_count = pps_count)
    => mode # MODE_START

\* C23, amended: mode Start is left for Fast on the 600th tick in a row with
\* |average_pps_error| <= 0.25 at the latest, whatever average_phase_error
\* is; a tick with |average_pps_error| > 0.25 leaves mode Start and starts
\* the count again, so that mode stays Start for as long as the frequency
\* error stays beyond 0.25.
C23_FastWithin600Quiet ==
  /\ [](mode = MODE_START => g_streak < 600)
  /\ [][(pc = "start" /\ Abs(average_pps_error) <= Scale \div 4
           /\ g_streak + 1 >= 600) => mode' = MODE_FAST]_vars
  /\ [][(pc = "start" /\ Abs(average_pps_error) > Scale \div 4)
          => (mode' = MODE_START /\ exit_timer' = 0)]_vars

\* The 600th tick has taken the engine out of the start mode with the
\* filtered phase error beyond 20 ns.
C23_Witness ==
  /\ g_prev.event = "exit"
  /\ Ticks = 600
  /\ g_prev.ctl[6] = 599
  /\ Abs(average_phase_error) > 20 * Scale
  /\ mode = MODE_FAST

\* C24: a downgrade sets enter_timer to 100 times the old mode; a tick that
\* reaches the check for a downgrade in mode Med or Slow with enter_timer
\* above 0 takes one from enter_timer and leaves mode as it is, whatever the
\* filtered phase error is; the phase error lowers mode only when the check
\* finds enter_timer 0; and nothing else changes enter_timer.
C24_EnterTimerHoldsOff ==
  /\ [][(pc \in {"gps_test", "downgrade"} /\ mode' # mode) =>
          (mode' = mode - 1 /\ enter_timer' = 100 * mode)]_vars
  /\ [][(pc = "downgrade" /\ pc' = "pi" /\ enter_timer > 0) =>
          /\ mode' = mode
          /\ enter_timer' =
               (IF mode \in {MODE_MED, MODE_SLOW}
                THEN enter_timer - 1 ELSE enter_timer)]_vars
  /\ [][(pc = "downgrade" /\ mode' # mode) => enter_timer = 0]_vars
  /\ [][enter_timer' # enter_timer => pc \in {"gps_test", "downgrade"}]_vars

\* A downgrade from Slow has set enter_timer to 300, and the next tick, in
\* mode Med with the filtered phase error beyond 100 ns, has taken one from
\* it and has not lowered mode.
C24_Witness ==
  /\ pc = "pi"
  /\ mode = MODE_MED
  /\ enter_timer = 299
  /\ Abs(average_phase_error) >= 100 * Scale
  /\ g_prev.event = "none"

\* C25: in the nominal run with a quantization error of zero every second,
\* mode changes from Start to Fast on tick 60, from Fast to Med on tick 260
\* and from Med to Slow on tick 1060, and on no other tick; mode Slow is
\* reached and is never left.
C25_ReachesSlow ==
  /\ [](g_receiver = "zero" =>
          mode =
            (IF Ticks < 60 \/ (Ticks = 60 /\ pc = "start") THEN MODE_START
             ELSE IF Ticks < 260 \/ (Ticks = 260 /\ pc \in {"hard", "upgrade"})
             THEN MODE_FAST
             ELSE IF Ticks < 1060
                       \/ (Ticks = 1060 /\ pc \in {"hard", "upgrade"})
             THEN MODE_MED
             ELSE MODE_SLOW))
  /\ (g_receiver = "zero") => <>[](mode = MODE_SLOW)

\* Tick 1060 has promoted the engine from Med to Slow.
C25_Witness ==
  /\ g_receiver = "zero"
  /\ g_prev.event = "up"
  /\ PrevMode = MODE_MED
  /\ g_prev.ctl[6] = 799
  /\ Ticks = 1060
  /\ mode = MODE_SLOW

\* iTerm after line 1077: iTerm += pTerm / (time_constant * DAMPING)
Integrated ==
  iTerm + RDiv(average_phase_error * GAIN * DAMPING_DEN,
               time_constant * DAMPING_NUM)

\* C26: the PI update of a tick ends with |i_term| <= 1000 * tc(mode); when
\* the integrated i_term is beyond that limit, 1000 * tc(mode) is taken from
\* its magnitude and trim_value moves by 1000, so that
\* trim_value - i_term / tc(mode) is what it was with the integrated i_term;
\* otherwise trim_value stays and i_term is the integrated one.
C26_AntiWindup ==
  [][pc = "pi" =>
       LET tc == mode_to_tc(mode)
           limit == 1000 * tc * Scale
       IN  /\ time_constant = tc
           /\ Abs(iTerm') <= limit
           /\ IF Abs(Integrated) > limit
              THEN /\ Abs(iTerm') = Abs(Integrated) - limit
                   /\ (iTerm' >= 0) = (Integrated >= 0)
                   /\ Abs(trim_value' - trim_value) = 1000 * Scale
                   /\ (trim_value' * tc) - iTerm'
                        = (trim_value * tc) - Integrated
              ELSE iTerm' = Integrated /\ trim_value' = trim_value]_vars

\* The tick of a long run has off-loaded the integral term: the trim value
\* has moved by 1000, up from a negative integral term or down from a
\* positive one, and what is left of the integral term is small.
C26_Witness ==
  /\ pc = "top"
  /\ pps_count \in g_fed
  /\ mode = MODE_SLOW
  /\ Abs(iTerm) < Scale * TC_SLOW
  /\ \E r \in LongRuns :
       /\ r.iterm < 0
       /\ trim_value = r.trim + (1000 * Scale)

\* The $GPGSA line with its checksum right, for every fix type.
FixLines ==
  [fix \in FixTypes |->
     [kind |-> "GPGSA",
      text |-> Sentence(GPGSA(fix), BodyChecksum(GPGSA(fix), 2))]]

\* C27: a $GPGSA line with its checksum right makes the fix status true when
\* its fix type is 3 (3D), and false when it is 1 (no fix) or 2 (2D).
C27_FixOnly3D ==
  [][\A fix \in FixTypes :
       Receive(FixLines[fix]) => gps_locked' = (IF fix = "3" THEN 1 ELSE 0)]_vars

\* n is QE_COMPENSATION * err rounded to the nearest integer (either one
\* when two are equally near), err in units of 1/Scale.
IsNearest(n, err) ==
  Abs((2 * n * QE_COMPENSATION_DEN * Scale) - (2 * QE_COMPENSATION_NUM * err))
    <= QE_COMPENSATION_DEN * Scale

\* C28: the phase error fed to the filter is the scaled ADC phase plus
\* QE_COMPENSATION times the quantization error rounded to the nearest
\* integer, for a quantization error of either sign.
C28_FusedPhaseRounded ==
  Fed => IsNearest(current_phase_error - PhaseOfAdc(irq_adc_value), pps_err)

\* C29: a tick of a pass that is free running (the pass has found the fix
\* invalid or the oscillator unlocked, line 787) records its capture as
\* processed (line 836), empties the latch and ends: it leaves mode,
\* trim_value, i_term, both averages and both timers as they are, feeds
\* nothing to the filters and sends no frame.
C29_FreeRunTick ==
  /\ [][(pc = "set_last" /\ pc' # pc) =>
          /\ last_pps_count' = pps_count
          /\ UNCHANGED <<ctlVars, dacVars, g_fed>>]_vars
  /\ [][(pc = "free_run" /\ unlocked /\ pc' # pc) =>
          /\ pps_err_buf' = <<>>
          /\ pc' = "top"
          /\ UNCHANGED <<last_pps_count, ctlVars, dacVars, g_fed>>]_vars

\* The capture of the last pulse has been consumed free running, the fix
\* lost and the oscillator locked, with the phase locked loop in use; its
\* quantization error had arrived and is gone.
C29_Witness ==
  /\ pc = "top"
  /\ pps_count = MaxPulses
  /\ last_pps_count = pps_count
  /\ pps_count \notin g_fed
  /\ g_line_edge = pps_count
  /\ pps_err_buf = <<>>
  /\ gps_locked = 0
  /\ last_gps_locked = 0
  /\ last_osc_locked = 1
  /\ mode # MODE_START
  /\ iTerm # 0
  /\ g_pass_tx = 0

\* C30: a frame that is to be kept (command 0x2c) is sent only by the
\* button's step, in mode Slow, on a press; every frame sent by the loss of
\* the oscillator's lock, by a tick in mode Start or by the PI update is one
\* that is not to be kept (command 0x2e), and no other step sends a frame.
C30_PersistOnlyOnButton ==
  [][g_pass_tx' = g_pass_tx + 1 =>
       IF FramePersists(LastFrame)
       THEN /\ pc = "buttons"
            /\ mode = MODE_SLOW
            /\ button_down = 0
            /\ button_down' = 1
            /\ FrameValue(LastFrame) = ToLong(DAC_SIGN * trim_value)
       ELSE /\ pc \in {"osc_edge", "start", "pi"}
            /\ LastFrame[1] = 46]_vars

\* The button has sent the trim value to be kept, in mode Slow, after a
\* frame of the engine that is not to be kept.
C30_Witness ==
  /\ pc = "chk_pps"
  /\ g_pass_tx = 1
  /\ Len(g_frames) = 2
  /\ ~FramePersists(g_frames[1])
  /\ FramePersists(g_frames[2])
  /\ mode = MODE_SLOW
  /\ button_down = 1
  /\ last_dac_value = ToLong(DAC_SIGN * trim_value)

====
